---- MODULE Spec2Model ----
(***************************************************************************)
(* The desktop launcher of apps/desktop/src-tauri/src/lib.rs: run()'s      *)
(* setup callback calls start_sidecar, which reserves a port, publishes    *)
(* the runtime info, spawns the sidecar, starts the task that drains the   *)
(* sidecar's output into the log and polls the port with wait_for_server.  *)
(*                                                                         *)
(* Time is in milliseconds.  Only the blocking calls of wait_for_server    *)
(* (connect_timeout, thread::sleep) advance the clock; every other step of *)
(* the launcher is taken as instantaneous.  The sidecar and other          *)
(* processes of the machine are the environment: they act at any point     *)
(* between two steps of the launcher.                                      *)
(*                                                                         *)
(* log and runtimeInfo record the calls of append_log and set_runtime_info;*)
(* whether the window then evaluates the script (eval_status_script) is    *)
(* left out.  A connect attempt to 127.0.0.1:port succeeds exactly when    *)
(* some process listens on the port at the instant the attempt starts.     *)
(***************************************************************************)
EXTENDS Integers, Sequences, FiniteSets, TLC

VARIABLES
    machine,      \* the machine the launcher runs on: what its collaborators can do
    pc,           \* position of the thread that executes run()'s setup callback
    mainThread,   \* what the application's main thread is doing
    now,          \* Instant::now(), in ms; it stands still once wait_for_server returned
    deadline,     \* wait_for_server's deadline, -1 before it is computed
    probed,       \* the port wait_for_server was called with, 0 before the call
    conn,         \* the connect attempt in progress: "none", "ok", "refused"
    probe,        \* wait_for_server's return value: "none", "true", "false"
    server_port,  \* start_sidecar's server_port, 0 before the reservation
    info,         \* db_path_text, web_dist_text, lan_ip, local_url, lan_url
    result,       \* start_sidecar's Result: "none", "Ok", "Err"
    error,        \* the Err's text
    log,          \* the messages passed to append_log, in call order
    runtimeInfo,  \* the arguments of the set_runtime_info calls, in call order
    infoAtSpawn,  \* the number of set_runtime_info calls made when spawn() ran
    spawns,       \* the argument lists of the spawn() calls, in call order
    opened,       \* the URLs passed to open_url, in call order
    child,        \* the sidecar process: "none", "running", "exited"
    listener,     \* who listens on 127.0.0.1:server_port: "none", "child", "other"
    boundInTime,  \* the child opened the port: "no", "early", "late", "after"
    rx,           \* the events of the sidecar's output stream not yet received
    rxClosed,     \* the stream's senders are gone
    emitted,      \* the number of events the sidecar has written
    received,     \* the events the drain task has received, in order
    drain         \* the drain task: "none", "running", "ended"

vars == <<machine, pc, mainThread, now, deadline, probed, conn, probe,
          server_port, info, result, error, log, runtimeInfo, infoAtSpawn,
          spawns, opened, child, listener, boundInTime, rx, rxClosed, emitted,
          received, drain>>

orchVars == <<pc, now, deadline, probed, conn, probe, server_port, info,
              result, error, runtimeInfo, infoAtSpawn, spawns, opened>>
envVars == <<child, listener, boundInTime, emitted, rxClosed>>
drainVars == <<received, drain>>

-----------------------------------------------------------------------------
(* Bounds of the model *)

\* the sidecar writes at most this many output events
MaxEvents == 2

-----------------------------------------------------------------------------
(* Program constants *)

SERVER_HOST == "0.0.0.0"
LOCALHOST == "127.0.0.1"
SIDECAR_BINARY == "rms-server-sidecar"

ConnectTimeoutMs == 250
SleepMs == 200
ReadyTimeoutMs == 10000
MAX_SEARCH_DEPTH == 5
\* the largest u16, the type of a port
MaxPort == 65535

TimeoutError == "Sidecar readiness timeout"

-----------------------------------------------------------------------------
(* Inputs *)

Stdout(line) == [kind |-> "Stdout", line |-> line]
Stderr(line) == [kind |-> "Stderr", line |-> line]
Terminated == [kind |-> "Terminated", line |-> ""]

\* how long a connect attempt lasts: an immediate answer, a late one, the timeout
ConnectDurations == {0, 100, ConnectTimeoutMs}
\* address.ip() of the outbound interface, when the lookup succeeds
LanAddress == "192.168.1.20"

\* A file system, as far as resolve_web_dist looks at it: resource_dir is the
\* path app.path().resource_dir() returns (NoPath when it is an Err), entries
\* maps each directory read_dir can read to its sub-directories in the order
\* read_dir yields them, index is the set of directories holding index.html.
NoPath == ""
Join(path, name) == path \o "/" \o name
ResourceDir == "/res"
\* env!("CARGO_MANIFEST_DIR") joined with .. .. web dist
WorkspaceWebDist == "/src/apps/desktop/src-tauri/../../web/dist"

RECURSIVE Reverse(_)
Reverse(s) == IF s = <<>> THEN <<>> ELSE Append(Reverse(Tail(s)), Head(s))

\* the directory tree of an installed application: the five places the bundler
\* may put the web assets, a directory two levels down, and a chain of
\* directories that goes one level below the search depth
InstalledTree ==
    ("/res" :> <<"/res/web-dist", "/res/dist", "/res/web", "/res/_up_", "/res/a", "/res/x">>)
    @@ ("/res/web" :> <<"/res/web/dist">>)
    @@ ("/res/_up_" :> <<"/res/_up_/_up_">>)
    @@ ("/res/_up_/_up_" :> <<"/res/_up_/_up_/web">>)
    @@ ("/res/_up_/_up_/web" :> <<"/res/_up_/_up_/web/dist">>)
    @@ ("/res/x" :> <<"/res/x/y">>)
    @@ ("/res/a" :> <<"/res/a/b">>)
    @@ ("/res/a/b" :> <<"/res/a/b/c">>)
    @@ ("/res/a/b/c" :> <<"/res/a/b/c/d">>)
    @@ ("/res/a/b/c/d" :> <<"/res/a/b/c/d/e">>)
    @@ ("/res/a/b/c/d/e" :> <<"/res/a/b/c/d/e/f">>)
    @@ [d \in {"/res/web-dist", "/res/dist", "/res/web/dist", "/res/_up_/_up_/web/dist",
               "/res/x/y", "/res/a/b/c/d/e/f"} |-> <<>>]
\* the same tree with read_dir yielding the entries in the opposite order
ReversedTree == [d \in DOMAIN InstalledTree |-> Reverse(InstalledTree[d])]
\* the same tree with a directory that read_dir cannot read
LockedTree == [d \in DOMAIN InstalledTree \ {"/res/x"} |-> InstalledTree[d]]
\* the directories that may hold an index.html
IndexPlaces ==
    {"/res", "/res/web-dist", "/res/dist", "/res/web/dist", "/res/_up_/_up_/web/dist",
     "/res/x/y", "/res/a/b/c/d/e", "/res/a/b/c/d/e/f", WorkspaceWebDist}
\* the file system of a packaged build: the assets are in web-dist
PackagedFs ==
    [resource_dir |-> ResourceDir, entries |-> InstalledTree, index |-> {"/res/web-dist"}]

\* A machine: the ports its OS hands out for a bind to port 0, the results of
\* detect_lan_ip on it, how long its connect attempts last, the events its
\* sidecar writes, and its file system.  All machines run the same launcher;
\* each keeps small the inputs that the claims checked on the others are not
\* about.
\* The machine of Spec: connect attempts of every duration, one line to write.
TimingMachine ==
    [ports   |-> {49152},
     lan_ips |-> {LanAddress},
     latency |-> ConnectDurations,
     events  |-> {Stdout(" a ")},
     fs      |-> PackagedFs]
\* The machine of StreamSpec: on either channel a line to trim and a line that
\* trims to nothing; connect attempts are answered at once and no interface is up.
StreamMachine ==
    [ports   |-> {49153},
     lan_ips |-> {LOCALHOST},
     latency |-> {0},
     events  |-> {Stdout(" a\n"), Stdout(" \t"), Stderr("b b "), Stderr("")},
     fs      |-> PackagedFs]
\* The machine of PortsSpec: two ports the OS may hand out, an interface up or
\* none.
PortsMachine ==
    [ports   |-> {49152, 49153},
     lan_ips |-> {LOCALHOST, LanAddress},
     latency |-> {0},
     events  |-> {Stdout("a")},
     fs      |-> PackagedFs]
\* The machine of DrainFairSpec: connect attempts are answered at once, the
\* sidecar has one line to write.
DrainMachine ==
    [ports   |-> {49152},
     lan_ips |-> {LanAddress},
     latency |-> {0},
     events  |-> {Stdout("a")},
     fs      |-> PackagedFs]
\* The machine of OrderSpec: connect attempts are answered at once, the
\* sidecar writes to either channel.
OrderMachine ==
    [ports   |-> {49152},
     lan_ips |-> {LanAddress},
     latency |-> {0},
     events  |-> {Stdout("a"), Stderr("b")},
     fs      |-> PackagedFs]
\* The machines of UrlSpec: one for each port a u16 can hold.
UrlMachines ==
    {[ports   |-> {p},
      lan_ips |-> {LOCALHOST, LanAddress},
      latency |-> {0},
      events  |-> {Stdout("a")},
      fs      |-> PackagedFs] : p \in 0..MaxPort}
\* The machines of AssetSpec: every placement of index.html files in the tree,
\* with or without a resource directory.
AssetMachines ==
    {[ports   |-> {49152},
      lan_ips |-> {LOCALHOST},
      latency |-> {0},
      events  |-> {Stdout("a")},
      fs      |-> [resource_dir |-> r, entries |-> t, index |-> i]] :
        r \in {ResourceDir, NoPath},
        t \in {InstalledTree, ReversedTree, LockedTree},
        i \in SUBSET IndexPlaces}

\* error.to_string() of the failures of the collaborators
BindError == "Address not available"
DirError == "Permission denied"
SpawnError == "sidecar binary not found"
OpenError == "no default browser"
AppDataDir == "/data/rms"

-----------------------------------------------------------------------------
(* Pure functions *)

\* format_http_url without the special case of port 80
format_http_url_with_port(host, port) ==
    "http://" \o host \o ":" \o ToString(port)

format_http_url(host, port) ==
    IF port = 80
    THEN "http://" \o host
    ELSE "http://" \o host \o ":" \o ToString(port)

\* lines 90-96
DirectCandidates(resource_dir) ==
    <<resource_dir,
      Join(resource_dir, "web-dist"),
      Join(resource_dir, "dist"),
      Join(Join(resource_dir, "web"), "dist"),
      Join(Join(Join(Join(resource_dir, "_up_"), "_up_"), "web"), "dist")>>

has_index_html(fs, directory) == directory \in fs.index

\* Search with the depth test passed one level too late
RECURSIVE SearchTooDeep(_, _)
SearchTooDeep(fs, stack) ==
    IF stack = <<>>
    THEN NoPath
    ELSE LET directory == stack[Len(stack)][1]
             depth == stack[Len(stack)][2]
             rest == SubSeq(stack, 1, Len(stack) - 1)
         IN  IF has_index_html(fs, directory)
             THEN directory
             ELSE IF depth > MAX_SEARCH_DEPTH
             THEN SearchTooDeep(fs, rest)
             ELSE IF directory \notin DOMAIN fs.entries
             THEN SearchTooDeep(fs, rest)
             ELSE SearchTooDeep(fs, rest \o [i \in 1..Len(fs.entries[directory]) |->
                                         <<fs.entries[directory][i], depth + 1>>])

\* lines 107-126: the loop over the stack of (directory, depth) pairs; pop takes
\* the last pair, the sub-directories are pushed in read_dir's order
RECURSIVE Search(_, _)
Search(fs, stack) ==
    IF stack = <<>>
    THEN NoPath
    ELSE LET directory == stack[Len(stack)][1]
             depth == stack[Len(stack)][2]
             rest == SubSeq(stack, 1, Len(stack) - 1)
         IN  IF has_index_html(fs, directory)
             THEN directory
             ELSE IF depth >= MAX_SEARCH_DEPTH
             THEN Search(fs, rest)
             ELSE IF directory \notin DOMAIN fs.entries
             THEN Search(fs, rest)
             ELSE Search(fs, rest \o [i \in 1..Len(fs.entries[directory]) |->
                                         <<fs.entries[directory][i], depth + 1>>])

\* the Option<PathBuf> it returns, NoPath for None
find_web_dist_in_resources(fs, resource_dir) ==
    LET direct_candidates == DirectCandidates(resource_dir)
        hits == {i \in 1..Len(direct_candidates) :
                    has_index_html(fs, direct_candidates[i])}
    IN  IF hits # {}
        THEN direct_candidates[CHOOSE i \in hits : \A j \in hits : i <= j]
        ELSE Search(fs, << <<resource_dir, 0>> >>)

resolve_web_dist(fs) ==
    LET found == IF fs.resource_dir # NoPath
                 THEN find_web_dist_in_resources(fs, fs.resource_dir)
                 ELSE NoPath
    IN  IF found # NoPath
        THEN found
        ELSE IF has_index_html(fs, WorkspaceWebDist)
        THEN WorkspaceWebDist
        ELSE WorkspaceWebDist

IsWhitespace(c) == c \in {" ", "\t", "\n", "\r"}

RECURSIVE TrimStart(_)
TrimStart(s) ==
    IF Len(s) > 0 /\ IsWhitespace(SubSeq(s, 1, 1))
    THEN TrimStart(SubSeq(s, 2, Len(s)))
    ELSE s

RECURSIVE TrimEnd(_)
TrimEnd(s) ==
    IF Len(s) > 0 /\ IsWhitespace(SubSeq(s, Len(s), Len(s)))
    THEN TrimEnd(SubSeq(s, 1, Len(s) - 1))
    ELSE s

\* str::trim
Trim(s) == TrimEnd(TrimStart(s))

\* DrainMessages without the test for an empty text
DrainMessagesUnfiltered(event) ==
    IF event.kind = "Stdout"
    THEN <<"[sidecar] " \o Trim(event.line)>>
    ELSE IF event.kind = "Stderr"
    THEN <<"[sidecar:err] " \o Trim(event.line)>>
    ELSE <<>>

\* the messages the drain task's loop body logs for one event (the lines are
\* valid UTF-8, which from_utf8_lossy leaves as they are)
DrainMessages(event) ==
    IF event.kind = "Stdout"
    THEN IF Trim(event.line) # "" THEN <<"[sidecar] " \o Trim(event.line)>> ELSE <<>>
    ELSE IF event.kind = "Stderr"
    THEN IF Trim(event.line) # "" THEN <<"[sidecar:err] " \o Trim(event.line)>> ELSE <<>>
    ELSE <<>>

\* the argument list start_sidecar builds
SidecarArgs(port, db_path_text, web_dist_text) ==
    <<"--host", SERVER_HOST, "--port", ToString(port),
      "--db-path", db_path_text, "--web-dist", web_dist_text>>

NoInfo == [db_path |-> "", web_dist |-> "", lan_ip |-> "", local_url |-> "", lan_url |-> ""]

-----------------------------------------------------------------------------
\* the state when run() calls the setup callback
Start ==
    /\ pc = "setup"
    /\ mainThread = "setup"
    /\ now = 0
    /\ deadline = -1
    /\ probed = 0
    /\ conn = "none"
    /\ probe = "none"
    /\ server_port = 0
    /\ info = NoInfo
    /\ result = "none"
    /\ error = ""
    /\ log = <<>>
    /\ runtimeInfo = <<>>
    /\ infoAtSpawn = -1
    /\ spawns = <<>>
    /\ opened = <<>>
    /\ child = "none"
    /\ listener = "none"
    /\ boundInTime = "no"
    /\ rx = <<>>
    /\ rxClosed = FALSE
    /\ emitted = 0
    /\ received = <<>>
    /\ drain = "none"

-----------------------------------------------------------------------------
(* run(): the setup callback, executed by the application's main thread *)

\* start_sidecar returns: `?` or the final Ok/Err
Return(res, text) ==
    /\ pc' = "returned"
    /\ result' = res
    /\ error' = text

\* lines 241-249: show the window, clone the handle, call start_sidecar
Setup ==
    /\ pc = "setup"
    /\ pc' = "prepare"
    /\ UNCHANGED <<machine, mainThread, now, deadline, probed, conn, probe,
                   server_port, info, result, error, log, runtimeInfo, infoAtSpawn,
                   spawns, opened, rx>>
    /\ UNCHANGED <<envVars, drainVars>>

\* Prepare without its log message
PrepareSilent ==
    /\ pc = "prepare"
    /\ pc' = "reserve"
    /\ UNCHANGED <<machine, mainThread, now, deadline, probed, conn, probe,
                   server_port, info, result, error, log, runtimeInfo, infoAtSpawn,
                   spawns, opened, rx>>
    /\ UNCHANGED <<envVars, drainVars>>

\* line 152
Prepare ==
    /\ pc = "prepare"
    /\ log' = Append(log, "Preparing local runtime...")
    /\ pc' = "reserve"
    /\ UNCHANGED <<machine, mainThread, now, deadline, probed, conn, probe,
                   server_port, info, result, error, runtimeInfo, infoAtSpawn,
                   spawns, opened, rx>>
    /\ UNCHANGED <<envVars, drainVars>>

\* ReservePort with the listener kept open after the port is read
ReservePortHeld ==
    /\ pc = "reserve"
    /\ \/ \E p \in machine.ports :
            /\ server_port' = p
            /\ listener' = "launcher"
            /\ log' = Append(log, "Selected available port: " \o ToString(p))
            /\ pc' = "datadir"
            /\ UNCHANGED <<result, error>>
       \/ /\ Return("Err", BindError)
          /\ UNCHANGED <<server_port, listener, log>>
    /\ UNCHANGED <<machine, mainThread, now, deadline, probed, conn, probe,
                   info, runtimeInfo, infoAtSpawn, spawns, opened, rx>>
    /\ UNCHANGED <<child, boundInTime, emitted, rxClosed, drainVars>>

\* lines 154-155 with reserve_local_port (64-68): the listener is bound to port 0,
\* its port read, and the listener dropped on return, so nothing holds the port
ReservePort ==
    /\ pc = "reserve"
    /\ \/ \E p \in machine.ports :
            /\ server_port' = p
            /\ log' = Append(log, "Selected available port: " \o ToString(p))
            /\ pc' = "datadir"
            /\ UNCHANGED <<result, error>>
       \/ /\ Return("Err", BindError)
          /\ UNCHANGED <<server_port, log>>
    /\ UNCHANGED <<machine, mainThread, now, deadline, probed, conn, probe,
                   info, runtimeInfo, infoAtSpawn, spawns, opened, rx>>
    /\ UNCHANGED <<envVars, drainVars>>

\* lines 157-158: app_data_dir() and create_dir_all, either may fail
DataDir ==
    /\ pc = "datadir"
    /\ \/ /\ pc' = "compute"
          /\ UNCHANGED <<result, error>>
       \/ Return("Err", DirError)
    /\ UNCHANGED <<machine, mainThread, now, deadline, probed, conn, probe,
                   server_port, info, log, runtimeInfo, infoAtSpawn, spawns, opened, rx>>
    /\ UNCHANGED <<envVars, drainVars>>

\* lines 160-168: db path, web assets, LAN address, the two URLs
ComputeInfo ==
    /\ pc = "compute"
    /\ \E ip \in machine.lan_ips :
          info' = [db_path   |-> AppDataDir \o "/rms-local.db",
                   web_dist  |-> resolve_web_dist(machine.fs),
                   lan_ip    |-> ip,
                   local_url |-> format_http_url(LOCALHOST, server_port),
                   lan_url   |-> format_http_url(ip, server_port)]
    /\ pc' = "publish"
    /\ UNCHANGED <<machine, mainThread, now, deadline, probed, conn, probe,
                   server_port, result, error, log, runtimeInfo, infoAtSpawn,
                   spawns, opened, rx>>
    /\ UNCHANGED <<envVars, drainVars>>

\* PublishInfo with the call made twice
PublishInfoTwice ==
    /\ pc = "publish"
    /\ runtimeInfo' = runtimeInfo \o <<<<info.local_url, info.lan_url, info.db_path>>,
                                       <<info.local_url, info.lan_url, info.db_path>>>>
    /\ pc' = "log_info"
    /\ UNCHANGED <<machine, mainThread, now, deadline, probed, conn, probe,
                   server_port, info, result, error, log, infoAtSpawn, spawns,
                   opened, rx>>
    /\ UNCHANGED <<envVars, drainVars>>

\* line 170
PublishInfo ==
    /\ pc = "publish"
    /\ runtimeInfo' = Append(runtimeInfo,
                             <<info.local_url, info.lan_url, info.db_path>>)
    /\ pc' = "log_info"
    /\ UNCHANGED <<machine, mainThread, now, deadline, probed, conn, probe,
                   server_port, info, result, error, log, infoAtSpawn, spawns,
                   opened, rx>>
    /\ UNCHANGED <<envVars, drainVars>>

\* lines 171-173
LogInfo ==
    /\ pc = "log_info"
    /\ log' = log \o <<"Database path: " \o info.db_path,
                       "Serving web assets from: " \o info.web_dist,
                       "LAN URL: " \o info.lan_url>>
    /\ pc' = "spawn"
    /\ UNCHANGED <<machine, mainThread, now, deadline, probed, conn, probe,
                   server_port, info, result, error, runtimeInfo, infoAtSpawn,
                   spawns, opened, rx>>
    /\ UNCHANGED <<envVars, drainVars>>

\* Spawn with a failure of spawn() ignored: the launch goes on without a child
SpawnIgnoreFailure ==
    /\ pc = "spawn"
    /\ log' = Append(log, "Starting sidecar runtime...")
    /\ \/ /\ spawns' = Append(spawns,
                              SidecarArgs(server_port, info.db_path, info.web_dist))
          /\ infoAtSpawn' = Len(runtimeInfo)
          /\ child' = "running"
       \/ UNCHANGED <<spawns, infoAtSpawn, child>>
    /\ pc' = "start_drain"
    /\ UNCHANGED <<machine, mainThread, now, deadline, probed, conn, probe,
                   server_port, info, result, error, runtimeInfo, opened, rx>>
    /\ UNCHANGED <<listener, boundInTime, emitted, rxClosed, drainVars>>

\* lines 175-196: build the arguments, log, spawn; on success the handle is
\* forgotten (mem::forget runs no destructor) and the child runs on its own
Spawn ==
    /\ pc = "spawn"
    /\ log' = Append(log, "Starting sidecar runtime...")
    /\ \/ /\ spawns' = Append(spawns,
                              SidecarArgs(server_port, info.db_path, info.web_dist))
          /\ infoAtSpawn' = Len(runtimeInfo)
          /\ child' = "running"
          /\ pc' = "start_drain"
          /\ UNCHANGED <<result, error>>
       \/ /\ Return("Err", SpawnError)
          /\ UNCHANGED <<spawns, infoAtSpawn, child>>
    /\ UNCHANGED <<machine, mainThread, now, deadline, probed, conn, probe,
                   server_port, info, runtimeInfo, opened, rx>>
    /\ UNCHANGED <<listener, boundInTime, emitted, rxClosed, drainVars>>

\* lines 198-217: async_runtime::spawn of the drain task; the call returns at once
StartDrain ==
    /\ pc = "start_drain"
    /\ drain' = "running"
    /\ pc' = "wait"
    /\ UNCHANGED <<machine, mainThread, now, deadline, probed, conn, probe,
                   server_port, info, result, error, log, runtimeInfo, infoAtSpawn,
                   spawns, opened, rx, received>>
    /\ UNCHANGED envVars

\* LoopHead giving up after the first failed attempt: only the call from
\* WaitStart starts a connect attempt
LoopHeadGiveUp(t, dl) ==
    IF t < dl /\ pc = "wait"
    THEN /\ pc' = "connecting"
         /\ conn' = IF listener # "none" THEN "ok" ELSE "refused"
         /\ UNCHANGED probe
    ELSE /\ pc' = "timed_out"
         /\ conn' = "none"
         /\ probe' = "false"

\* wait_for_server's loop head at instant t with deadline dl (lines 74-75): past
\* the deadline the function returns false; before it the next connect attempt
\* starts and its answer is the one the port gives at that instant
LoopHead(t, dl) ==
    IF t < dl
    THEN /\ pc' = "connecting"
         /\ conn' = IF listener # "none" THEN "ok" ELSE "refused"
         /\ UNCHANGED probe
    ELSE /\ pc' = "timed_out"
         /\ conn' = "none"
         /\ probe' = "false"

\* WaitStart with the drain task awaited before the probe starts
WaitStartAfterDrain ==
    /\ pc = "wait"
    /\ drain = "ended"
    /\ log' = Append(log, "Waiting for HTTP server readiness...")
    /\ deadline' = now + ReadyTimeoutMs
    /\ probed' = server_port
    /\ LoopHead(now, now + ReadyTimeoutMs)
    /\ UNCHANGED <<machine, mainThread, now, server_port, info, result, error,
                   runtimeInfo, infoAtSpawn, spawns, opened, rx>>
    /\ UNCHANGED <<envVars, drainVars>>

\* WaitStart with the probe sent to the default HTTP port
WaitStartDefaultPort ==
    /\ pc = "wait"
    /\ log' = Append(log, "Waiting for HTTP server readiness...")
    /\ deadline' = now + ReadyTimeoutMs
    /\ probed' = 80
    /\ LoopHead(now, now + ReadyTimeoutMs)
    /\ UNCHANGED <<machine, mainThread, now, server_port, info, result, error,
                   runtimeInfo, infoAtSpawn, spawns, opened, rx>>
    /\ UNCHANGED <<envVars, drainVars>>

\* lines 219-221 and 71-75: log, compute the deadline, enter the loop
WaitStart ==
    /\ pc = "wait"
    /\ log' = Append(log, "Waiting for HTTP server readiness...")
    /\ deadline' = now + ReadyTimeoutMs
    /\ probed' = server_port
    /\ LoopHead(now, now + ReadyTimeoutMs)
    /\ UNCHANGED <<machine, mainThread, now, server_port, info, result, error,
                   runtimeInfo, infoAtSpawn, spawns, opened, rx>>
    /\ UNCHANGED <<envVars, drainVars>>

\* lines 75-77: connect_timeout returns after at most 250 ms; Ok makes
\* wait_for_server return true
ConnectEnd ==
    /\ pc = "connecting"
    /\ \E d \in machine.latency :
          /\ conn = "ok" => d < ConnectTimeoutMs
          /\ now' = now + d
          /\ IF conn = "ok"
             THEN /\ pc' = "ready"
                  /\ probe' = "true"
             ELSE /\ pc' = "sleeping"
                  /\ UNCHANGED probe
    /\ conn' = "none"
    /\ UNCHANGED <<machine, mainThread, deadline, probed, server_port, info, result, error,
                   log, runtimeInfo, infoAtSpawn, spawns, opened, rx>>
    /\ UNCHANGED <<envVars, drainVars>>

\* line 79, then the loop head again
SleepEnd ==
    /\ pc = "sleeping"
    /\ now' = now + SleepMs
    /\ LoopHead(now + SleepMs, deadline)
    /\ UNCHANGED <<machine, mainThread, deadline, probed, server_port, info, result, error,
                   log, runtimeInfo, infoAtSpawn, spawns, opened, rx>>
    /\ UNCHANGED <<envVars, drainVars>>

\* OpenBrowser with the LAN URL handed to open_url instead of the local one
OpenBrowserLanUrl ==
    /\ pc = "ready"
    /\ opened' = Append(opened, info.lan_url)
    /\ \/ /\ log' = log \o <<"Server is ready. Opening browser...",
                             "Opened: " \o info.lan_url>>
          /\ Return("Ok", "")
       \/ /\ log' = Append(log, "Server is ready. Opening browser...")
          /\ Return("Err", OpenError)
    /\ UNCHANGED <<machine, mainThread, now, deadline, probed, conn, probe,
                   server_port, info, runtimeInfo, infoAtSpawn, spawns, rx>>
    /\ UNCHANGED <<envVars, drainVars>>

\* lines 222-229: the probe succeeded
OpenBrowser ==
    /\ pc = "ready"
    /\ opened' = Append(opened, info.local_url)
    /\ \/ /\ log' = log \o <<"Server is ready. Opening browser...",
                             "Opened: " \o info.local_url>>
          /\ Return("Ok", "")
       \/ /\ log' = Append(log, "Server is ready. Opening browser...")
          /\ Return("Err", OpenError)
    /\ UNCHANGED <<machine, mainThread, now, deadline, probed, conn, probe,
                   server_port, info, runtimeInfo, infoAtSpawn, spawns, rx>>
    /\ UNCHANGED <<envVars, drainVars>>

\* ReportTimeout with the timeout reported as a failed spawn
ReportTimeoutAsSpawnError ==
    /\ pc = "timed_out"
    /\ log' = Append(log, "Server did not become ready within timeout.")
    /\ Return("Err", SpawnError)
    /\ UNCHANGED <<machine, mainThread, now, deadline, probed, conn, probe,
                   server_port, info, runtimeInfo, infoAtSpawn, spawns, opened, rx>>
    /\ UNCHANGED <<envVars, drainVars>>

\* ReportTimeout with the timeout swallowed: the function falls through to Ok
ReportTimeoutAsOk ==
    /\ pc = "timed_out"
    /\ log' = Append(log, "Server did not become ready within timeout.")
    /\ Return("Ok", "")
    /\ UNCHANGED <<machine, mainThread, now, deadline, probed, conn, probe,
                   server_port, info, runtimeInfo, infoAtSpawn, spawns, opened, rx>>
    /\ UNCHANGED <<envVars, drainVars>>

\* ReportTimeout with the sidecar killed when the probe gives up
ReportTimeoutKillChild ==
    /\ pc = "timed_out"
    /\ log' = Append(log, "Server did not become ready within timeout.")
    /\ Return("Err", TimeoutError)
    /\ child' = "exited"
    /\ listener' = IF listener = "child" THEN "none" ELSE listener
    /\ UNCHANGED <<machine, mainThread, now, deadline, probed, conn, probe,
                   server_port, info, runtimeInfo, infoAtSpawn, spawns, opened, rx>>
    /\ UNCHANGED <<boundInTime, emitted, rxClosed, drainVars>>

\* lines 232-233: the probe timed out
ReportTimeout ==
    /\ pc = "timed_out"
    /\ log' = Append(log, "Server did not become ready within timeout.")
    /\ Return("Err", TimeoutError)
    /\ UNCHANGED <<machine, mainThread, now, deadline, probed, conn, probe,
                   server_port, info, runtimeInfo, infoAtSpawn, spawns, opened, rx>>
    /\ UNCHANGED <<envVars, drainVars>>

\* SetupFinish with a failed launch returned as the setup callback's error,
\* which ends the application
SetupFinishAbort ==
    /\ pc = "returned"
    /\ log' = IF result = "Err" THEN Append(log, "Launcher error: " \o error) ELSE log
    /\ pc' = "done"
    /\ mainThread' = IF result = "Err" THEN "aborted" ELSE "event_loop"
    /\ UNCHANGED <<machine, now, deadline, probed, conn, probe, server_port,
                   info, result, error, runtimeInfo, infoAtSpawn, spawns, opened, rx>>
    /\ UNCHANGED <<envVars, drainVars>>

\* SetupFinish with a failed launch tried again
SetupFinishRetry ==
    /\ pc = "returned"
    /\ log' = IF result = "Err" THEN Append(log, "Launcher error: " \o error) ELSE log
    /\ pc' = IF result = "Err" THEN "prepare" ELSE "done"
    /\ mainThread' = IF result = "Err" THEN mainThread ELSE "event_loop"
    /\ UNCHANGED <<machine, now, deadline, probed, conn, probe, server_port,
                   info, result, error, runtimeInfo, infoAtSpawn, spawns, opened, rx>>
    /\ UNCHANGED <<envVars, drainVars>>

\* lines 249-254: an Err is logged, the callback returns Ok either way and the
\* main thread goes on to run the event loop
SetupFinish ==
    /\ pc = "returned"
    /\ log' = IF result = "Err" THEN Append(log, "Launcher error: " \o error) ELSE log
    /\ pc' = "done"
    /\ mainThread' = "event_loop"
    /\ UNCHANGED <<machine, now, deadline, probed, conn, probe, server_port,
                   info, result, error, runtimeInfo, infoAtSpawn, spawns, opened, rx>>
    /\ UNCHANGED <<envVars, drainVars>>

Orchestrator ==
    \/ Setup \/ Prepare \/ ReservePort \/ DataDir \/ ComputeInfo \/ PublishInfo
    \/ LogInfo \/ Spawn \/ StartDrain \/ WaitStart \/ ConnectEnd \/ SleepEnd
    \/ OpenBrowser \/ ReportTimeout \/ SetupFinish

-----------------------------------------------------------------------------
(* The drain task (lines 199-217), run by the async runtime *)

\* DrainRecv of a task that is scoped to the launch: it stops receiving once
\* start_sidecar has returned
DrainRecvDuringLaunch ==
    /\ drain = "running"
    /\ pc \notin {"returned", "done"}
    /\ rx # <<>>
    /\ received' = Append(received, Head(rx))
    /\ rx' = Tail(rx)
    /\ log' = log \o DrainMessages(Head(rx))
    /\ UNCHANGED <<machine, mainThread, drain>>
    /\ UNCHANGED <<orchVars, envVars>>

\* one iteration of the loop: rx.recv() yields the next event
DrainRecv ==
    /\ drain = "running"
    /\ rx # <<>>
    /\ received' = Append(received, Head(rx))
    /\ rx' = Tail(rx)
    /\ log' = log \o DrainMessages(Head(rx))
    /\ UNCHANGED <<machine, mainThread, drain>>
    /\ UNCHANGED <<orchVars, envVars>>

\* rx.recv() yields None: every sender is gone and nothing is queued
DrainEnd ==
    /\ drain = "running"
    /\ rx = <<>>
    /\ rxClosed
    /\ drain' = "ended"
    /\ UNCHANGED <<machine, mainThread, log, rx, received>>
    /\ UNCHANGED <<orchVars, envVars>>

-----------------------------------------------------------------------------
(* The environment: the sidecar process and the other processes of the machine *)

\* one polling cycle of wait_for_server at its longest
PollCycleMs == ConnectTimeoutMs + SleepMs

\* the sidecar starts listening on 0.0.0.0:server_port
ChildBind ==
    /\ child = "running"
    /\ listener = "none"
    /\ boundInTime = "no"
    /\ listener' = "child"
    /\ boundInTime' = IF deadline = -1 \/ now + PollCycleMs < deadline THEN "early"
                      ELSE IF now < deadline THEN "late"
                      ELSE "after"
    /\ UNCHANGED <<machine, mainThread, log, rx, child, emitted, rxClosed>>
    /\ UNCHANGED <<orchVars, drainVars>>

\* the sidecar writes a line to its stdout or stderr
ChildEmit ==
    /\ child = "running"
    /\ emitted < MaxEvents
    /\ \E e \in machine.events : rx' = Append(rx, e)
    /\ emitted' = emitted + 1
    /\ UNCHANGED <<machine, mainThread, log, child, listener, boundInTime, rxClosed>>
    /\ UNCHANGED <<orchVars, drainVars>>

\* the sidecar exits on its own: its listener and its output stream close
ChildExit ==
    /\ child = "running"
    /\ child' = "exited"
    /\ listener' = IF listener = "child" THEN "none" ELSE listener
    /\ rx' = Append(rx, Terminated)
    /\ rxClosed' = TRUE
    /\ UNCHANGED <<machine, mainThread, log, boundInTime, emitted>>
    /\ UNCHANGED <<orchVars, drainVars>>

\* another process binds the port that reserve_local_port returned and released
OtherBind ==
    /\ server_port # 0
    /\ listener = "none"
    /\ listener' = "other"
    /\ UNCHANGED <<machine, mainThread, log, rx, child, boundInTime, emitted, rxClosed>>
    /\ UNCHANGED <<orchVars, drainVars>>

Environment == ChildBind \/ ChildEmit \/ ChildExit \/ OtherBind

-----------------------------------------------------------------------------
Next == Orchestrator \/ DrainRecv \/ DrainEnd \/ Environment

Init == machine = TimingMachine /\ Start
Spec == Init /\ [][Next]_vars

\* the thread that executes the setup callback keeps running; nothing is
\* assumed of the drain task or of the environment
FairSpec == Spec /\ WF_vars(Orchestrator)

\* the async runtime has worker threads of its own: a drain task that can take
\* a step is run, whatever the thread of the setup callback is doing
DrainInit == machine = DrainMachine /\ Start
DrainFairSpec ==
    /\ DrainInit
    /\ [][Next]_vars
    /\ WF_vars(Orchestrator)
    /\ WF_vars(DrainRecv)
    /\ WF_vars(DrainEnd)

StreamInit == machine = StreamMachine /\ Start
StreamSpec == StreamInit /\ [][Next]_vars

OrderInit == machine = OrderMachine /\ Start
OrderSpec == OrderInit /\ [][Next]_vars

PortsInit == machine = PortsMachine /\ Start
PortsSpec == PortsInit /\ [][Next]_vars

\* start_sidecar up to the point where its paths and URLs are computed
Resolve == Setup \/ Prepare \/ ReservePort \/ DataDir \/ ComputeInfo

UrlInit == machine \in UrlMachines /\ Start
UrlSpec == UrlInit /\ [][Resolve]_vars

AssetInit == machine \in AssetMachines /\ Start
AssetSpec == AssetInit /\ [][Resolve]_vars

-----------------------------------------------------------------------------
(* The launch outcome *)

\* start_sidecar has returned its LaunchOutcome
Terminal == pc \in {"returned", "done"}
Ready == Terminal /\ result = "Ok"
Failed == Terminal /\ result = "Err"
\* the thread is inside wait_for_server
InWait == pc \in {"connecting", "sleeping"}
Spawned == Len(spawns) > 0
\* the errors of the steps before the probe
EarlyErrors == {BindError, DirError, SpawnError}

-----------------------------------------------------------------------------
(* C1 *)

\* what C1 promises of a run: Failed by the readiness timeout, no sooner than the
\* deadline and less than one polling cycle after it, and no open_url call
TimeoutOutcome ==
    /\ Failed
    /\ error = TimeoutError
    /\ probe = "false"
    /\ now >= deadline
    /\ now < deadline + PollCycleMs
    /\ opened = <<>>

\* C1 as stated: if the child never opens the probed port, a launch that spawned
\* it ends Failed with the readiness-timeout error, once the 10 s have elapsed
\* (within one polling cycle), and open_url is never called.
C1_AsStated == (Terminal /\ Spawned /\ boundInTime = "no") => TimeoutOutcome

\* C1 amended: if no process, neither the child nor any other, ever listens on
\* the probed port, a launch that spawned the child ends Failed with the
\* readiness-timeout error, once the 10 s have elapsed (within one polling
\* cycle), and open_url is never called.  (A listener of another process never
\* goes away in this model, so none now means none ever.)
C1_NoListenerTimeout ==
    (Terminal /\ Spawned /\ boundInTime = "no" /\ listener = "none") => TimeoutOutcome

C1_Witness ==
    /\ pc = "done" /\ Spawned /\ boundInTime = "no" /\ listener = "none"
    /\ error = TimeoutError /\ now > deadline

-----------------------------------------------------------------------------
(* C2 *)

\* the sink calls C2 promises: one set_runtime_info, made before the spawn, and
\* one open_url with the local URL given to set_runtime_info
PublishedThenOpened ==
    /\ Len(runtimeInfo) = 1
    /\ infoAtSpawn = 1
    /\ opened = <<runtimeInfo[1][1]>>

\* C2 as stated: if the child opens the probed port after the spawn and before
\* the readiness deadline, and keeps it open, the launch ends Ready with exactly
\* one set_runtime_info call, made before the spawn, and exactly one open_url
\* call with that call's local URL.
C2_AsStated ==
    (Terminal /\ boundInTime \in {"early", "late"} /\ listener = "child")
        => (Ready /\ PublishedThenOpened)

\* C2 amended: if the child opens the probed port after the spawn and more than
\* one polling cycle (450 ms) before the readiness deadline, and keeps it open,
\* the probe succeeds, set_runtime_info was called exactly once and before the
\* spawn, and open_url is called exactly once with that call's local URL; the
\* launch ends Ready if open_url succeeds and Failed with its error otherwise.
C2_OpenedInTime ==
    (Terminal /\ boundInTime = "early" /\ listener = "child")
        => /\ probe = "true"
           /\ PublishedThenOpened
           /\ Ready \/ (Failed /\ error = OpenError)

C2_Witness ==
    /\ pc = "done" /\ boundInTime = "early" /\ listener = "child"
    /\ Ready /\ now >= 300 /\ opened = <<info.local_url>>

-----------------------------------------------------------------------------
(* C3 *)

\* C3 as stated: whenever wait_for_server returned true the outcome is Ready, and
\* Failed is never reached after a successful probe.
C3_AsStated == (Terminal /\ probe = "true") => Ready

\* C3 amended: whenever the probe succeeds and open_url then succeeds the outcome
\* is Ready, and Ready is reached in no other way; Failed is reached only when
\* the probe timed out, when an earlier step (reservation, data directory,
\* spawn) failed, or when open_url failed after a successful probe.
C3_OutcomeByProbe ==
    /\ Ready => probe = "true" /\ Len(opened) = 1
    /\ Failed => \/ probe = "false" /\ error = TimeoutError
                 \/ probe = "none" /\ error \in EarlyErrors
                 \/ probe = "true" /\ error = OpenError /\ Len(opened) = 1
    /\ (Terminal /\ probe = "true") => (Ready \/ error = OpenError)
    /\ (Terminal /\ probe = "false") => Failed

C3_Witness == pc = "done" /\ probe = "true" /\ Ready

-----------------------------------------------------------------------------
(* C4 *)

\* the order of the launch's steps; the two positions of the polling loop share
\* a rank
Rank(p) ==
    CASE p = "setup" -> 0
      [] p = "prepare" -> 1
      [] p = "reserve" -> 2
      [] p = "datadir" -> 3
      [] p = "compute" -> 4
      [] p = "publish" -> 5
      [] p = "log_info" -> 6
      [] p = "spawn" -> 7
      [] p = "start_drain" -> 8
      [] p = "wait" -> 9
      [] p \in {"connecting", "sleeping"} -> 10
      [] p \in {"ready", "timed_out"} -> 11
      [] p = "returned" -> 12
      [] p = "done" -> 13

\* C4: the launch is a single forward pass.  One outcome is produced: there is
\* none before start_sidecar returns and one from then on, and once produced it
\* never changes and no effect of the launch sequence follows it; every step
\* moves forward (only the polling loop stays in its step); spawn runs at most
\* once.
C4_SinglePass ==
    /\ [](Len(spawns) <= 1)
    /\ []((result # "none") <=> Terminal)
    /\ [][/\ pc' # pc => Rank(pc') > Rank(pc) \/ (InWait /\ InWait')
          /\ result # "none" =>
                /\ result' = result /\ error' = error
                /\ UNCHANGED <<spawns, opened, runtimeInfo, server_port, info,
                               probe, now, deadline>>]_vars

C4_Witness == pc = "done" /\ Spawned /\ probe = "false" /\ Failed

-----------------------------------------------------------------------------
(* C5 *)

\* the RuntimeInfo of a launch on port p with LAN address ip
ComputedInfo(p, ip) ==
    <<format_http_url(LOCALHOST, p), format_http_url(ip, p),
      AppDataDir \o "/rms-local.db">>

\* C5 as stated: every launch that reached its outcome, whichever step caused
\* it, has made exactly one set_runtime_info call, with the computed values.
C5_AsStated ==
    Terminal => /\ Len(runtimeInfo) = 1
                /\ runtimeInfo[1] = ComputedInfo(server_port, info.lan_ip)

\* C5 amended: set_runtime_info is called at most once per launch; a launch that
\* reached its outcome has made exactly one call if the port reservation and the
\* data directory succeeded, and none if one of them failed; the call is made
\* after the local URL, LAN URL and db path are computed, and carries them.
C5_PublishedOnce ==
    /\ Len(runtimeInfo) <= 1
    /\ Terminal => Len(runtimeInfo) = IF error \in {BindError, DirError} THEN 0 ELSE 1
    /\ Len(runtimeInfo) = 1 =>
          /\ info # NoInfo
          /\ runtimeInfo[1] = ComputedInfo(server_port, info.lan_ip)

C5_Witness == pc = "done" /\ Failed /\ error = SpawnError /\ Len(runtimeInfo) = 1

-----------------------------------------------------------------------------
(* C6 *)

\* C6: polling stops at or before the deadline: by the instant start + timeout
\* no sleep is still in progress and wait_for_server has returned.
C6_StopsByDeadline ==
    /\ pc = "sleeping" => now + SleepMs <= deadline
    /\ probe # "none" => now <= deadline

-----------------------------------------------------------------------------
(* C7 *)

\* C7: wait_for_server terminates; it returns true exactly when a connect attempt
\* succeeded and false exactly when the deadline has passed without one, so
\* never before the timeout has elapsed; an attempt starts only before the
\* deadline, succeeds if something listens on the port when it starts, and a
\* successful attempt makes the function return true at once.
C7_WaitForServer ==
    /\ [](probe = "false" => now >= deadline)
    /\ [][(pc' = "connecting" /\ pc # "connecting") =>
             /\ now' < deadline'
             /\ (conn' = "ok") <=> (listener # "none")]_vars
    /\ [][(pc = "connecting" /\ pc' # "connecting") =>
             (probe' = "true") <=> (conn = "ok")]_vars
    /\ [][probe' # probe =>
             /\ probe = "none"
             /\ (probe' = "true") <=> (pc = "connecting" /\ conn = "ok")
             /\ (probe' = "false") <=> (conn # "ok" /\ now' >= deadline')]_vars
    /\ (pc = "wait") ~> (probe # "none")

C7_Witness == pc = "done" /\ probe = "true" /\ now > SleepMs /\ now < deadline

-----------------------------------------------------------------------------
(* C8 *)

\* C8: while the thread is inside wait_for_server the main thread is not the
\* one executing it: it is free to run the event loop.
C8_ProbeOffMainThread == InWait => mainThread = "event_loop"

-----------------------------------------------------------------------------
(* C9 *)

HasPrefix(m, p) == Len(m) >= Len(p) /\ SubSeq(m, 1, Len(p)) = p

\* the tag of a message logged by the drain task, "" for the other messages
SidecarTag(m) ==
    IF HasPrefix(m, "[sidecar] ") THEN "[sidecar] "
    ELSE IF HasPrefix(m, "[sidecar:err] ") THEN "[sidecar:err] "
    ELSE ""

\* the tags of the drain task's messages, in log order
SidecarTags ==
    LET msgs == SelectSeq(log, LAMBDA m : SidecarTag(m) # "")
    IN  [i \in 1..Len(msgs) |-> SidecarTag(msgs[i])]

\* a line with a character that is not whitespace
NonBlank(line) == \E i \in 1..Len(line) : ~IsWhitespace(SubSeq(line, i, i))

\* one tag per Stdout or Stderr event with a non-blank line, in order
RECURSIVE ExpectedTags(_)
ExpectedTags(events) ==
    IF events = <<>> THEN <<>>
    ELSE LET e == Head(events)
             tag == IF e.kind = "Stdout" /\ NonBlank(e.line) THEN <<"[sidecar] ">>
                    ELSE IF e.kind = "Stderr" /\ NonBlank(e.line) THEN <<"[sidecar:err] ">>
                    ELSE <<>>
         IN  tag \o ExpectedTags(Tail(events))

\* C9: the log holds exactly one drain message per received Stdout or Stderr
\* line that is not blank, in stream order, tagged "[sidecar]" for stdout and
\* "[sidecar:err]" for stderr; blank lines and other events add none.
C9_OneLogPerLine == SidecarTags = ExpectedTags(received)

C9_Witness ==
    /\ received = <<Stdout(" \t"), Stderr("b b "), Terminated>>
    /\ SidecarTags = <<"[sidecar:err] ">>

-----------------------------------------------------------------------------
(* C10 *)

\* C10: the drain task never blocks the launch: whatever the drain task and the
\* stream do, a step of the launch is enabled until the setup callback is done,
\* and a launch that spawned the sidecar reaches its outcome.
C10_DrainNeverBlocks ==
    /\ [](pc # "done" => ENABLED Orchestrator)
    /\ Spawned ~> Terminal

C10_Witness ==
    /\ Terminal /\ probe = "false"
    /\ drain = "running" /\ ~rxClosed /\ rx # <<>> /\ Len(received) = 1

-----------------------------------------------------------------------------
\* the effects of the steps that follow the spawn
NoEffectAfterSpawn ==
    /\ drain = "none"
    /\ received = <<>>
    /\ deadline = -1
    /\ probed = 0
    /\ probe = "none"
    /\ opened = <<>>

\* the effects of the steps that follow the data directory
NoEffectAfterDataDir ==
    /\ info = NoInfo
    /\ runtimeInfo = <<>>
    /\ spawns = <<>>
    /\ child = "none"
    /\ NoEffectAfterSpawn

\* C11: fail-fast.  When the port reservation, the data directory or the spawn
\* fails, start_sidecar returns at that step with an Err of that failure's
\* text, and the run has no effect of a later step: after a reservation or
\* directory failure no set_runtime_info, spawn, drain task, probe or open_url,
\* after a spawn failure no drain task, probe or open_url.
C11_FailFast ==
    /\ []((Terminal /\ error \in {BindError, DirError})
            => (result = "Err" /\ NoEffectAfterDataDir))
    /\ []((Terminal /\ error = SpawnError)
            => (result = "Err" /\ spawns = <<>> /\ child = "none"
                /\ NoEffectAfterSpawn))
    /\ [](~Spawned => NoEffectAfterSpawn)
    /\ [](server_port = 0 => NoEffectAfterDataDir)
    /\ [][(pc \in {"reserve", "datadir", "spawn"} /\ result' = "Err")
            => /\ pc' = "returned"
               /\ error' = (CASE pc = "reserve" -> BindError
                              [] pc = "datadir" -> DirError
                              [] OTHER -> SpawnError)
               /\ UNCHANGED <<server_port, info, runtimeInfo, spawns, opened,
                              deadline, probed, probe, child, drain>>]_vars

C11_Witness ==
    /\ pc = "done"
    /\ error = SpawnError
    /\ Len(runtimeInfo) = 1
    /\ Len(log) > 5

-----------------------------------------------------------------------------
\* text occurs in the message m
Mentions(m, text) ==
    \E k \in 0..(Len(m) - Len(text)) : SubSeq(m, k + 1, k + Len(text)) = text

\* some logged message carries the reason of the failure start_sidecar returns
ReasonLogged ==
    \E i \in DOMAIN log :
        \/ Mentions(log[i], error)
        \/ /\ error = TimeoutError
           /\ Mentions(log[i], "did not become ready within timeout")

\* C12: every failure is logged before it is propagated.  When start_sidecar
\* returns the Err of a failed reservation, directory creation, spawn or of the
\* readiness timeout, a message that carries the failure's reason has already
\* been passed to append_log.
C12_LoggedBeforeReturn ==
    (pc = "returned" /\ error \in EarlyErrors \cup {TimeoutError}) => ReasonLogged

-----------------------------------------------------------------------------
\* C13: the sidecar is spawned with exactly --host <host>, --port <n>,
\* --db-path <path>, --web-dist <path>, in that order; the port n is the port
\* the launch reserved, the port wait_for_server polls, and the port of the
\* local and LAN URLs given to set_runtime_info and open_url; the db path
\* given to the child is the one published by set_runtime_info.
C13_OnePortOneDbPath ==
    /\ [](\A i \in DOMAIN spawns :
            /\ Len(runtimeInfo) = 1
            /\ spawns[i] = <<"--host", "0.0.0.0",
                             "--port", ToString(server_port),
                             "--db-path", runtimeInfo[1][3],
                             "--web-dist", info.web_dist>>)
    /\ [](\A i \in DOMAIN runtimeInfo :
            /\ runtimeInfo[i][1] = "http://127.0.0.1:" \o ToString(server_port)
            /\ runtimeInfo[i][2] = "http://" \o info.lan_ip \o ":" \o ToString(server_port))
    /\ [](deadline # -1 => probed = server_port)
    /\ [](\A i \in DOMAIN opened :
            opened[i] = "http://127.0.0.1:" \o ToString(server_port))
    /\ [][server_port # 0 => server_port' = server_port]_vars

C13_Witness ==
    /\ Ready
    /\ server_port = 49153
    /\ info.lan_ip = LanAddress
    /\ probed = 49153
    /\ Len(spawns) = 1
    /\ Len(opened) = 1

-----------------------------------------------------------------------------
\* a step of the launcher: of the thread that runs the setup callback or of
\* the drain task
LauncherStep ==
    \/ pc' # pc
    \/ mainThread' # mainThread
    \/ result' # result
    \/ log' # log
    \/ drain' # drain
    \/ received' # received

\* C14: once spawned, the child is never terminated by the launcher.  The
\* only step of the launcher that changes the child is the spawn that starts
\* it; the child stops running only in a step of its own, in which the
\* launcher does nothing.  So in every terminal state, the ones reached by
\* the readiness timeout or by an open_url error included, the spawned child
\* runs unless it has exited on its own.
C14_ChildOutlivesLaunch ==
    /\ [][LauncherStep => (child' = child
                            \/ (pc = "spawn" /\ child = "none" /\ child' = "running"))]_vars
    /\ [][(child = "running" /\ child' # "running")
            => (child' = "exited" /\ ~LauncherStep)]_vars
    /\ [](Spawned => child \in {"running", "exited"})

C14_Witness ==
    /\ pc = "done"
    /\ error = TimeoutError
    /\ child = "running"
    /\ drain = "running"

-----------------------------------------------------------------------------
\* C15: reserve_local_port releases its listener before it returns, so
\* nothing holds the returned port afterwards, and the launcher neither
\* detects nor prevents that another process takes it: with the port in the
\* hands of another process the launcher goes on, spawns the child with
\* --port set to that port and probes that port, where the other process
\* answers.  (That such a run exists is what C15_Witness is reached for.)
C15_PortNotHeld ==
    /\ [][server_port' # server_port => listener' = "none"]_vars
    /\ [](listener \in {"none", "child", "other"})
    /\ []((listener = "other" /\ pc # "done") => ENABLED Orchestrator)
    /\ [][(listener = "other" /\ pc = "spawn" /\ Spawned')
            => spawns'[1][4] = ToString(server_port)]_vars
    /\ [][(listener = "other" /\ pc = "wait" /\ pc' # "wait")
            => (probed' = server_port /\ pc' = "connecting" /\ conn' = "ok")]_vars

\* another process took the port after the reservation and before the child
\* could bind it; the child was given the port all the same, and the probe of
\* the port succeeded
C15_Witness ==
    /\ Ready
    /\ listener = "other"
    /\ boundInTime = "no"
    /\ child = "running"
    /\ spawns = <<SidecarArgs(server_port, info.db_path, info.web_dist)>>
    /\ probed = server_port
    /\ probe = "true"

-----------------------------------------------------------------------------
\* C16: the drain task is not scoped to the launch.  Whatever the position of
\* start_sidecar, its terminal outcomes included, a running drain task takes
\* the next event of the stream when there is one, and every event written is
\* received in the end; the task ends only when the stream is closed and
\* empty, and when the stream is closed it does end.
C16_DrainOutlivesLaunch ==
    /\ []((drain = "running" /\ rx # <<>>) => ENABLED DrainRecv)
    /\ [][(drain = "running" /\ drain' # "running")
            => (rxClosed /\ rx = <<>> /\ drain' = "ended")]_vars
    /\ (drain = "running" /\ rx # <<>>) ~> (rx = <<>>)
    /\ (drain = "running" /\ rxClosed) ~> (drain = "ended")

\* a line of the sidecar is logged after the launch failed by timeout and
\* run() logged the error; then the stream closed and the task ended
C16_Witness ==
    /\ pc = "done"
    /\ error = TimeoutError
    /\ log # <<>>
    /\ HasPrefix(log[Len(log)], "[sidecar] ")
    /\ \E i \in DOMAIN log : log[i] = "Launcher error: " \o TimeoutError
    /\ drain = "ended"

-----------------------------------------------------------------------------
\* directory d lies at most k levels below root, and read_dir can read every
\* directory on the way down to it
RECURSIVE Within(_, _, _, _)
Within(fs, root, d, k) ==
    \/ d = root
    \/ /\ k > 0
       /\ root \in DOMAIN fs.entries
       /\ \E i \in DOMAIN fs.entries[root] : Within(fs, fs.entries[root][i], d, k - 1)

\* the directories with an index.html that a search of the resource directory
\* to depth 5 can come across
SearchHits(fs) == {d \in fs.index : Within(fs, fs.resource_dir, d, 5)}

\* C17: asset resolution is total and ordered.  resolve_web_dist always
\* yields a path: the first of the resource directory, its web-dist, dist,
\* web/dist and _up_/_up_/web/dist that holds index.html; if none does, a
\* directory with index.html that the search of the resource directory finds
\* within depth 5; and if there is none, or no resource directory, the
\* workspace's web/dist, whether or not index.html is there.
C17_OrderedTotal ==
    info # NoInfo =>
        LET fs == machine.fs
            r == fs.resource_dir
            w == info.web_dist
            workspace == "/src/apps/desktop/src-tauri/../../web/dist"
        IN  /\ w # ""
            /\ IF r = "" THEN w = workspace
               ELSE IF r \in fs.index THEN w = r
               ELSE IF (r \o "/web-dist") \in fs.index THEN w = r \o "/web-dist"
               ELSE IF (r \o "/dist") \in fs.index THEN w = r \o "/dist"
               ELSE IF (r \o "/web/dist") \in fs.index THEN w = r \o "/web/dist"
               ELSE IF (r \o "/_up_/_up_/web/dist") \in fs.index
               THEN w = r \o "/_up_/_up_/web/dist"
               ELSE IF SearchHits(fs) # {} THEN w \in SearchHits(fs)
               ELSE w = workspace

\* no direct candidate holds index.html; the search passes the directory two
\* levels down, which read_dir yields later, and finds the one at depth 5
C17_Witness ==
    /\ pc = "publish"
    /\ info.web_dist = "/res/a/b/c/d/e"
    /\ machine.fs.index = {"/res/x/y", "/res/a/b/c/d/e", "/res/a/b/c/d/e/f", WorkspaceWebDist}

-----------------------------------------------------------------------------
\* the decimal numeral of n
RECURSIVE Decimal(_)
Decimal(n) ==
    LET digit == SubSeq("0123456789", (n % 10) + 1, (n % 10) + 1)
    IN  IF n < 10 THEN digit ELSE Decimal(n \div 10) \o digit

\* the URL the rule gives for host h and port p
UrlByRule(h, p) == IF p = 80 THEN "http://" \o h ELSE "http://" \o h \o ":" \o Decimal(p)

\* C18: for every host h and every port p of 0..65535, format_http_url(h, p)
\* is "http://h" when p = 80 and "http://h:p" otherwise, and both the local
\* URL and the LAN URL of a launch are formed by this rule.
C18_UrlRule ==
    /\ server_port \in 0..65535
    /\ info # NoInfo =>
          /\ info.local_url = UrlByRule("127.0.0.1", server_port)
          /\ info.lan_url = UrlByRule(info.lan_ip, server_port)
          /\ \A h \in {info.lan_ip, "localhost", ""} :
                format_http_url(h, server_port) = UrlByRule(h, server_port)

\* the launch on port 80 of a machine with an interface up
C18_Witness ==
    /\ pc = "publish"
    /\ server_port = 80
    /\ info.local_url = "http://127.0.0.1"
    /\ info.lan_url = "http://192.168.1.20"

-----------------------------------------------------------------------------
\* a message that starts with prefix is appended to the log in this step
NewlyLogged(prefix) ==
    \E i \in (Len(log) + 1)..Len(log') : HasPrefix(log'[i], prefix)

\* the db path, the asset path and the LAN URL are logged, in this order
InfoLogged ==
    \E i \in DOMAIN log :
        /\ i + 2 <= Len(log)
        /\ HasPrefix(log[i], "Database path: ")
        /\ HasPrefix(log[i + 1], "Serving web assets from: ")
        /\ HasPrefix(log[i + 2], "LAN URL: ")

\* C19: the launcher's observable events come in a fixed order.  The first
\* event the sink gets is the log "Preparing local runtime..."; when the db
\* path, asset path and LAN URL are logged, set_runtime_info has been called;
\* when the sidecar is spawned, the three have been logged; when the drain
\* task starts, the sidecar has been spawned and no connect attempt has been
\* made; when the first connect attempt starts, the drain task has been
\* started; open_url is called only after the probe has returned true; a
\* message tagged "[sidecar] " or "[sidecar:err] " is logged only after the
\* spawn has succeeded.
C19_EventOrder ==
    /\ [](log # <<>> => log[1] = "Preparing local runtime...")
    /\ [](log = <<>> => (runtimeInfo = <<>> /\ spawns = <<>> /\ opened = <<>>))
    /\ [][(\/ NewlyLogged("Database path: ")
            \/ NewlyLogged("Serving web assets from: ")
            \/ NewlyLogged("LAN URL: "))
            => (Len(runtimeInfo) = 1 /\ ~Spawned /\ ~Spawned')]_vars
    /\ [][(~Spawned /\ Spawned')
            => (InfoLogged /\ drain = "none" /\ drain' = "none")]_vars
    /\ [][(drain = "none" /\ drain' # "none")
            => (Spawned /\ deadline = -1 /\ deadline' = -1
                /\ conn = "none" /\ conn' = "none")]_vars
    /\ [][(conn = "none" /\ conn' # "none") => drain # "none"]_vars
    /\ [][opened' # opened => (probe = "true" /\ probe' = "true")]_vars
    /\ [][(NewlyLogged("[sidecar] ") \/ NewlyLogged("[sidecar:err] ")) => Spawned]_vars

\* a launch that ended Ready, with a line of either channel of the sidecar
\* in the log
C19_Witness ==
    /\ pc = "done"
    /\ Ready
    /\ InfoLogged
    /\ Len(opened) = 1
    /\ SidecarTags = <<"[sidecar] ", "[sidecar:err] ">>

-----------------------------------------------------------------------------
\* the "Launcher error: ..." messages of the log
LauncherErrors == SelectSeq(log, LAMBDA m : HasPrefix(m, "Launcher error: "))

\* C20: a launch failure never aborts the application.  Whatever start_sidecar
\* returns, the setup callback returns Ok and the main thread goes on to the
\* event loop.  After an Err exactly one message "Launcher error: <reason>"
\* is logged, once start_sidecar has returned; after an Ok none is.
C20_SetupReturnsOk ==
    /\ [](mainThread \in {"setup", "event_loop"})
    /\ [](pc = "returned" => ENABLED SetupFinish)
    /\ [][(pc = "returned" /\ pc' # pc)
            => (pc' = "done" /\ mainThread' = "event_loop")]_vars
    /\ [](pc # "done" => LauncherErrors = <<>>)
    /\ []((pc = "done" /\ result = "Err")
            => LauncherErrors = <<"Launcher error: " \o error>>)
    /\ []((pc = "done" /\ result = "Ok") => LauncherErrors = <<>>)

\* the application runs after a failed spawn, the error logged once
C20_Witness ==
    /\ pc = "done"
    /\ mainThread = "event_loop"
    /\ result = "Err"
    /\ log[Len(log)] = "Launcher error: sidecar binary not found"

====
